------------------------------ MODULE Spec2Model ------------------------------
(***************************************************************************)
(* Model of the two-pass Hack assembler of Scripts/assembler.py: the line  *)
(* sanitizer, the symbol table (seeding, label scan, resolve), the         *)
(* instruction encoder (parseline) and the driver loop of main.            *)
(*                                                                         *)
(* Text is modelled as a sequence of one-character strings, so that        *)
(* indexing, slicing and prefix matching are what the Python code does.    *)
(* Binary words are text too: a sequence of the characters "0" and "1".    *)
(***************************************************************************)
EXTENDS Integers, Sequences, FiniteSets, TLC

(***************************************************************************)
(* Bounds of the model.                                                    *)
(***************************************************************************)
\* longest source file (number of raw lines) given to main
MaxLines == 4
\* longest source file given to the symbol table of the Resolve scenario
MaxSymLines == 2
\* number of Resolve calls made on one symbol table
MaxCalls == 4
\* longest free-form line given to a single parseline call
MaxLineLen == 3

(***************************************************************************)
(* Text helpers (Python str operations used by the code).                  *)
(***************************************************************************)
\* The alphabet of the model is the characters U+0000..U+00FF, each a
\* one-character string. The whitespace characters that have no escape are
\* written as themselves between the quotes:
VT == ""      \* U+000B, line tabulation (\v)
FS == ""      \* U+001C, file separator
GS == ""      \* U+001D, group separator
RS == ""      \* U+001E, record separator
US == ""      \* U+001F, unit separator
NEL == ""     \* U+0085, next line
NBSP == " "    \* U+00A0, no-break space

\* the characters that \s matches in a str pattern and that str.strip()
\* removes (those for which str.isspace() is true). Python's set also holds
\* the Unicode spaces above U+00FF (U+1680, U+2000..U+200A, U+2028, U+2029,
\* U+202F, U+205F, U+3000), which lie outside the alphabet.
Whitespace ==
    {" ", "\t", "\n", "\r", "\f", VT, FS, GS, RS, US, NEL, NBSP}

\* the characters that int() skips around the number: the ASCII whitespace
\* of the C locale and the non-ASCII spaces; not U+001C..U+001F
IntSpace == {" ", "\t", "\n", "\r", "\f", VT, NEL, NBSP}

DigitChars == <<"0", "1", "2", "3", "4", "5", "6", "7", "8", "9">>

IsDigit(c) == \E i \in 1..10 : DigitChars[i] = c

DigitVal(c) == (CHOOSE i \in 1..10 : DigitChars[i] = c) - 1

\* s.startswith(t)
StartsWith(s, t) == Len(t) <= Len(s) /\ SubSeq(s, 1, Len(t)) = t

\* s[n:]
Drop(s, n) == SubSeq(s, n + 1, Len(s))

\* s without its leading and trailing characters of the set W
StripOf(s, W) ==
    LET keep == {i \in 1..Len(s) : s[i] \notin W}
    IN  IF keep = {} THEN <<>>
        ELSE SubSeq(s, CHOOSE i \in keep : \A j \in keep : i <= j,
                       CHOOSE i \in keep : \A j \in keep : i >= j)

\* str.strip(): leading and trailing whitespace removed
Strip(s) == StripOf(s, Whitespace)

\* str(i) of a non-negative integer: its decimal digits
RECURSIVE Str(_)
Str(i) == IF i < 10 THEN <<DigitChars[i + 1]>>
          ELSE Str(i \div 10) \o <<DigitChars[(i % 10) + 1]>>

\* sys.get_int_max_str_digits() of the runtime: int() raises ValueError on a
\* text with more digits
MaxStrDigits == 4300

\* whether int(s) succeeds: optional surrounding IntSpace, an optional sign,
\* then at most MaxStrDigits digits with single underscores allowed between
\* digits (the digits 0-9: the alphabet has no other decimal digit)
IsInt(s) ==
    LET t == StripOf(s, IntSpace)
        b == IF Len(t) > 0 /\ t[1] \in {"+", "-"} THEN Drop(t, 1) ELSE t
    IN  /\ Len(b) > 0
        /\ IsDigit(b[1])
        /\ IsDigit(b[Len(b)])
        /\ \A i \in 1..Len(b) : IsDigit(b[i]) \/ b[i] = "_"
        /\ \A i \in 1..(Len(b) - 1) : ~(b[i] = "_" /\ b[i + 1] = "_")
        /\ Len(SelectSeq(b, IsDigit)) <= MaxStrDigits

RECURSIVE DecVal(_)
DecVal(ds) == IF Len(ds) = 0 THEN 0
              ELSE 10 * DecVal(SubSeq(ds, 1, Len(ds) - 1)) + DigitVal(ds[Len(ds)])

\* int(s) where IsInt(s)
IntVal(s) ==
    LET t == StripOf(s, IntSpace)
        neg == Len(t) > 0 /\ t[1] = "-"
        b == IF Len(t) > 0 /\ t[1] \in {"+", "-"} THEN Drop(t, 1) ELSE t
        v == DecVal(SelectSeq(b, IsDigit))
    IN  IF neg THEN 0 - v ELSE v

\* the binary digits of n >= 0, most significant first, no padding
RECURSIVE Bin(_)
Bin(n) == IF n < 2 THEN <<DigitChars[n + 1]>>
          ELSE Bin(n \div 2) \o <<DigitChars[(n % 2) + 1]>>

RECURSIVE ZFill(_, _)
ZFill(s, w) == IF Len(s) >= w THEN s ELSE ZFill(<<"0">> \o s, w)

\* format(n, 'b'): the padding left out
format_b(n) == IF n >= 0 THEN Bin(n) ELSE <<"-">> \o Bin(0 - n)

\* format(n, '016b'): zero-padded to a MINIMUM width of 16, the sign counted
format016b(n) == IF n >= 0 THEN ZFill(Bin(n), 16)
                 ELSE <<"-">> \o ZFill(Bin(0 - n), 15)

\* _sanitizeline: the text before the first "//", with all whitespace removed
sanitizeline(line) ==
    LET marks == {i \in 1..(Len(line) - 1) : line[i] = "/" /\ line[i + 1] = "/"}
        cut == IF marks = {} THEN Len(line)
               ELSE (CHOOSE i \in marks : \A j \in marks : i <= j) - 1
    IN  SelectSeq(SubSeq(line, 1, cut), LAMBDA c : c \notin Whitespace)

(***************************************************************************)
(* The compute grammar and its tables (parseline.code_parse).              *)
(***************************************************************************)
\* alternatives of _re_dest, in the order the pattern lists them
re_dest ==
    << <<"A","M","D">>, <<"A","D">>, <<"A","M">>, <<"M","D">>,
       <<"A">>, <<"M">>, <<"D">> >>

\* the alternatives of _re_comp with the one-character tokens moved to the
\* front, where they shadow the longer tokens they start
re_comp_short_first ==
    << <<"M">>, <<"A">>, <<"D">>, <<"1">>, <<"0">>,
       <<"D","|","A">>, <<"D","&","A">>, <<"A","-","D">>, <<"D","-","A">>, <<"D","+","A">>,
       <<"A","-","1">>, <<"D","-","1">>, <<"A","+","1">>, <<"D","+","1">>, <<"D","|","M">>,
       <<"D","&","M">>, <<"M","-","D">>, <<"D","-","M">>, <<"D","+","M">>, <<"M","-","1">>,
       <<"M","+","1">>, <<"-","M">>, <<"!","M">>, <<"-","A">>,
       <<"-","D">>, <<"!","A">>, <<"!","D">>, <<"-","1">> >>

\* alternatives of _re_comp, in the order the pattern lists them (the last
\* alternative, 0?, also matches the empty text: see code_parse)
re_comp ==
    << <<"D","|","A">>, <<"D","&","A">>, <<"A","-","D">>, <<"D","-","A">>, <<"D","+","A">>,
       <<"A","-","1">>, <<"D","-","1">>, <<"A","+","1">>, <<"D","+","1">>, <<"D","|","M">>,
       <<"D","&","M">>, <<"M","-","D">>, <<"D","-","M">>, <<"D","+","M">>, <<"M","-","1">>,
       <<"M","+","1">>, <<"-","M">>, <<"!","M">>, <<"M">>, <<"-","A">>,
       <<"-","D">>, <<"!","A">>, <<"!","D">>, <<"A">>, <<"D">>,
       <<"-","1">>, <<"1">>, <<"0">> >>

\* alternatives of _re_jmp, in the order the pattern lists them
re_jmp ==
    << <<"J","G","T">>, <<"J","E","Q">>, <<"J","G","E">>, <<"J","L","T">>,
       <<"J","N","E">>, <<"J","L","E">>, <<"J","M","P">> >>

comp_table ==
    << <<<<"0">>, <<"1","1","1","0","1","0","1","0","1","0">>>>,
       <<<<"1">>, <<"1","1","1","0","1","1","1","1","1","1">>>>,
       <<<<"-","1">>, <<"1","1","1","0","1","1","1","0","1","0">>>>,
       <<<<"D">>, <<"1","1","1","0","0","0","1","1","0","0">>>>,
       <<<<"A">>, <<"1","1","1","0","1","1","0","0","0","0">>>>,
       <<<<"!","D">>, <<"1","1","1","0","0","0","1","1","0","1">>>>,
       <<<<"!","A">>, <<"1","1","1","0","1","1","0","0","0","1">>>>,
       <<<<"-","D">>, <<"1","1","1","0","0","0","1","1","1","1">>>>,
       <<<<"-","A">>, <<"1","1","1","0","1","1","0","0","1","1">>>>,
       <<<<"D","+","1">>, <<"1","1","1","0","0","1","1","1","1","1">>>>,
       <<<<"A","+","1">>, <<"1","1","1","0","1","1","0","1","1","1">>>>,
       <<<<"D","-","1">>, <<"1","1","1","0","0","0","1","1","1","0">>>>,
       <<<<"A","-","1">>, <<"1","1","1","0","1","1","0","0","1","0">>>>,
       <<<<"D","+","A">>, <<"1","1","1","0","0","0","0","0","1","0">>>>,
       <<<<"D","-","A">>, <<"1","1","1","0","0","1","0","0","1","1">>>>,
       <<<<"A","-","D">>, <<"1","1","1","0","0","0","0","1","1","1">>>>,
       <<<<"D","&","A">>, <<"1","1","1","0","0","0","0","0","0","0">>>>,
       <<<<"D","|","A">>, <<"1","1","1","0","0","1","0","1","0","1">>>>,
       <<<<"M">>, <<"1","1","1","1","1","1","0","0","0","0">>>>,
       <<<<"!","M">>, <<"1","1","1","1","1","1","0","0","0","1">>>>,
       <<<<"-","M">>, <<"1","1","1","1","1","1","0","0","1","1">>>>,
       <<<<"M","+","1">>, <<"1","1","1","1","1","1","0","1","1","1">>>>,
       <<<<"M","-","1">>, <<"1","1","1","1","1","1","0","0","1","0">>>>,
       <<<<"D","+","M">>, <<"1","1","1","1","0","0","0","0","1","0">>>>,
       <<<<"D","-","M">>, <<"1","1","1","1","0","1","0","0","1","1">>>>,
       <<<<"M","-","D">>, <<"1","1","1","1","0","0","0","1","1","1">>>>,
       <<<<"D","&","M">>, <<"1","1","1","1","0","0","0","0","0","0">>>>,
       <<<<"D","|","M">>, <<"1","1","1","1","0","1","0","1","0","1">>>> >>

dest_table ==
    << <<<<"N","o","n","e">>, <<"0","0","0">>>>,
       <<<<"M">>, <<"0","0","1">>>>,
       <<<<"D">>, <<"0","1","0">>>>,
       <<<<"M","D">>, <<"0","1","1">>>>,
       <<<<"A">>, <<"1","0","0">>>>,
       <<<<"A","M">>, <<"1","0","1">>>>,
       <<<<"A","D">>, <<"1","1","0">>>>,
       <<<<"A","M","D">>, <<"1","1","1">>>> >>

jmp_table ==
    << <<<<"N","o","n","e">>, <<"0","0","0">>>>,
       <<<<"J","G","T">>, <<"0","0","1">>>>,
       <<<<"J","E","Q">>, <<"0","1","0">>>>,
       <<<<"J","G","E">>, <<"0","1","1">>>>,
       <<<<"J","L","T">>, <<"1","0","0">>>>,
       <<<<"J","N","E">>, <<"1","0","1">>>>,
       <<<<"J","L","E">>, <<"1","1","0">>>>,
       <<<<"J","M","P">>, <<"1","1","1">>>> >>

\* dict lookup table[key]; every key the code looks up is present
Lookup(tab, key) == tab[CHOOSE i \in 1..Len(tab) : tab[i][1] = key][2]

\* str(None), the key under which the tables hold the code of an absent group
NoneKey == <<"N", "o", "n", "e">>

\* ordered alternation: the index of the first alternative of alts such that
\* the alternative followed by suffix is a prefix of s; 0 when there is none
FirstAlt(alts, s, suffix) ==
    LET hits == {i \in 1..Len(alts) : StartsWith(s, alts[i] \o suffix)}
    IN  IF hits = {} THEN 0 ELSE CHOOSE i \in hits : \A j \in hits : i <= j

\* re.match of ((dest)=)?(comp|0?)(;(jmp))? at the start of line. Every part
\* may match the empty text, so the match never fails and never backtracks
\* into an earlier group: each group takes its first alternative that fits.
\* group2, group3, group5 are the texts bound by the groups; an optional
\* group that did not take part is None, which str() turns into "None".
re_match(line) ==
    LET d == FirstAlt(re_dest, line, <<"=">>)
        rest1 == IF d = 0 THEN line ELSE Drop(line, Len(re_dest[d]) + 1)
        c == FirstAlt(re_comp, rest1, <<>>)
        g3 == IF c = 0 THEN <<>> ELSE re_comp[c]
        rest2 == Drop(rest1, Len(g3))
        j == IF StartsWith(rest2, <<";">>)
             THEN FirstAlt(re_jmp, Drop(rest2, 1), <<>>) ELSE 0
    IN  [group2 |-> IF d = 0 THEN NoneKey ELSE re_dest[d],
         group3 |-> g3,
         group5 |-> IF j = 0 THEN NoneKey ELSE re_jmp[j]]

\* parseline.code_parse: comp is <<>> where the code returns None
code_parse(line) ==
    LET grouped_c == re_match(line)
    IN  [dest |-> Lookup(dest_table, grouped_c.group2),
         comp |-> IF grouped_c.group3 # <<>>
                  THEN Lookup(comp_table, grouped_c.group3) ELSE <<>>,
         jmp  |-> Lookup(jmp_table, grouped_c.group5)]

(***************************************************************************)
(* The symbol table (class symboltable).                                   *)
(***************************************************************************)
\* table[key] = value on a dict: insert, or overwrite
Put(table, key, value) ==
    [k \in (DOMAIN table) \cup {key} |-> IF k = key THEN value ELSE table[k]]

\* the dict an empty table is
EmptyTable == [k \in {} |-> <<>>]

\* the 23 pre-set entries of inittable
SeedTable ==
    LET regs == [k \in {<<"R">> \o Str(i) : i \in 0..15} |->
                   format016b(CHOOSE i \in 0..15 : k = <<"R">> \o Str(i))]
        t1 == Put(regs, <<"S", "P">>, format016b(0))
        t2 == Put(t1, <<"L", "C", "L">>, format016b(1))
        t3 == Put(t2, <<"A", "R", "G">>, format016b(2))
        t4 == Put(t3, <<"T", "H", "I", "S">>, format016b(3))
        t5 == Put(t4, <<"T", "H", "A", "T">>, format016b(4))
        t6 == Put(t5, <<"S", "C", "R", "E", "E", "N">>, format016b(16384))
    IN  Put(t6, <<"K", "B", "D">>, format016b(24576))

\* the value inittable gives self.used: registers 0-15 are taken
InitUsed == 15

\* line[0] == '(' and line[-1] == ')', on a non-empty line
IsLabelLine(line) == line[1] = "(" /\ line[Len(line)] = ")"

\* the label scan with the label lines counted as instructions too
RECURSIVE ScanLines_count_all(_, _, _, _)
ScanLines_count_all(lines, i, table, c_list) ==
    IF i > Len(lines) THEN [table |-> table, lines |-> c_list]
    ELSE IF IsLabelLine(lines[i])
         THEN ScanLines_count_all(lines, i + 1,
                        Put(table, SubSeq(lines[i], 2, Len(lines[i]) - 1),
                            format016b(i - 1)),
                        c_list)
         ELSE ScanLines_count_all(lines, i + 1, table, Append(c_list, lines[i]))

\* the label scan of inittable from line i on: a label line writes the table
\* at the current instruction count, any other line is kept and counted
RECURSIVE ScanLines(_, _, _, _)
ScanLines(lines, i, table, c_list) ==
    IF i > Len(lines) THEN [table |-> table, lines |-> c_list]
    ELSE IF IsLabelLine(lines[i])
         THEN ScanLines(lines, i + 1,
                        Put(table, SubSeq(lines[i], 2, Len(lines[i]) - 1),
                            format016b(Len(c_list))),
                        c_list)
         ELSE ScanLines(lines, i + 1, table, Append(c_list, lines[i]))

\* symboltable.inittable: the table, the counter and the instruction lines
inittable(lines) ==
    LET r == ScanLines(lines, 1, SeedTable, <<>>)
    IN  [table |-> r.table, used |-> InitUsed, lines |-> r.lines]

\* symboltable._sanitizeasm: every line sanitized, the empty ones dropped
sanitizeasm(lines) ==
    SelectSeq([i \in 1..Len(lines) |-> sanitizeline(lines[i])],
              LAMBDA l : l # <<>>)

\* symboltable.__init__
symboltable(lines) == inittable(sanitizeasm(lines))

\* resolve with the lookup left out: every call takes a new address
resolve_always_new(table, used, label) ==
    [binary |-> format016b(used + 1),
     table |-> Put(table, label, format016b(used + 1)),
     used |-> used + 1]

\* resolve with the counter left where it was
resolve_no_advance(table, used, label) ==
    IF label \in DOMAIN table
    THEN [binary |-> table[label], table |-> table, used |-> used]
    ELSE [binary |-> format016b(used + 1),
          table |-> Put(table, label, format016b(used + 1)),
          used |-> used]

\* symboltable.resolve: the table's value, or a new key at the next address
resolve(table, used, label) ==
    IF label \in DOMAIN table
    THEN [binary |-> table[label], table |-> table, used |-> used]
    ELSE [binary |-> format016b(used + 1),
          table |-> Put(table, label, format016b(used + 1)),
          used |-> used + 1]

(***************************************************************************)
(* The instruction encoder (class parseline).                              *)
(*                                                                         *)
(* An outcome is a record: kind is "ok" or the class of the exception that *)
(* left the constructor; type and binary are the instance's attributes     *)
(* (type "None" for None); err is <<line, line_loc>> of a ParseError;      *)
(* table and used are the symbol table after the call.                     *)
(***************************************************************************)
Outcome(kind, type, binary, err, table, used) ==
    [kind |-> kind, type |-> type, binary |-> binary, err |-> err,
     table |-> table, used |-> used]

\* parseline.address_parse. Without a symbol table the raise statement calls
\* ParseError with a keyword, type, that its constructor does not have: the
\* call itself fails with a TypeError and no ParseError is ever built.
address_parse(line, line_loc, hasSym, table, used) ==
    IF IsInt(line)
    THEN Outcome("ok", "a_type", format016b(IntVal(line)), <<>>, table, used)
    ELSE IF hasSym
         THEN LET r == resolve(table, used, line)
              IN  Outcome("ok", "a_type", r.binary, <<>>, r.table, r.used)
         ELSE Outcome("TypeError", "None", <<>>, <<>>, table, used)

\* subclass with the word put together as dest + comp + jmp
subclass_dest_first(line, line_loc, hasSym, table, used) ==
    LET cp == code_parse(line)
    IN  IF Len(line) = 0
        THEN Outcome("IndexError", "None", <<>>, <<>>, table, used)
        ELSE IF line[1] = "@"
        THEN address_parse(Drop(line, 1), line_loc, hasSym, table, used)
        ELSE IF cp.comp # <<>>
        THEN Outcome("ok", "c_type", cp.dest \o cp.comp \o cp.jmp, <<>>,
                     table, used)
        ELSE IF line[1] = "(" /\ line[Len(line)] = ")"
        THEN Outcome("ok", "None", <<>>, <<>>, table, used)
        ELSE Outcome("ParseError", "None", <<>>, <<line, line_loc>>,
                     table, used)

\* parseline.subclass. line[0] is read before the emptiness test, so an
\* empty line leaves with an IndexError.
subclass(line, line_loc, hasSym, table, used) ==
    LET cp == code_parse(line)
    IN  IF Len(line) = 0
        THEN Outcome("IndexError", "None", <<>>, <<>>, table, used)
        ELSE IF line[1] = "@"
        THEN address_parse(Drop(line, 1), line_loc, hasSym, table, used)
        ELSE IF cp.comp # <<>>
        THEN Outcome("ok", "c_type", cp.comp \o cp.dest \o cp.jmp, <<>>,
                     table, used)
        ELSE IF line[1] = "(" /\ line[Len(line)] = ")"
        THEN Outcome("ok", "None", <<>>, <<>>, table, used)
        ELSE IF line = <<>>
        THEN Outcome("ok", "None", <<>>, <<>>, table, used)
        ELSE Outcome("ParseError", "None", <<>>, <<line, line_loc>>,
                     table, used)

\* parseline.__init__: subclass is given the line as passed, not self.line
parseline(line, line_loc, hasSym, table, used) ==
    subclass(line, line_loc, hasSym, table, used)

(***************************************************************************)
(* State.                                                                  *)
(***************************************************************************)
VARIABLES
    pc,        \* position of the scenario's control
    asm,       \* the raw lines of the source file
    lines,     \* symbolics.lines: the instruction lines, labels removed
    table,     \* symbolics.table
    used,      \* symbolics.used
    line_loc,  \* main's line counter
    parsed,    \* main's list of parseline instances
    printed,   \* what main printed: one <<type, line_loc, line>> per error
    log,       \* the content of ./log.txt, written by ParseError.__init__
    hack,      \* the lines written to the .hack file
    calls,     \* history of the calls on the table: method, name, result,
               \* counter after
    inline,    \* the line a single parseline call is given
    symb,      \* whether that call is given a symbol table
    outcome    \* how that call ended

vars == <<pc, asm, lines, table, used, line_loc, parsed, printed, log, hack,
          calls, inline, symb, outcome>>

NoOutcome == Outcome("none", "None", <<>>, <<>>, EmptyTable, 0)

\* str(err.type) as main prints it: ParseError.__init__ stores the builtin
\* type, not its itype argument
ClassType == "<class 'type'>"

\* the itype a ParseError raised by subclass writes to the log
Unknown == "Unknown"

(***************************************************************************)
(* Inputs.                                                                 *)
(***************************************************************************)
\* the raw lines a source file is made of, as open() yields them: each
\* ends with the newline that the text mode of open() turns every line
\* ending into
LinePool ==
    { <<"(", "L", ")", "\n">>,                     \* (L)
      <<"@", "L", FS, "\n">>,                      \* @L, U+001C before the end
      <<"@", "v", "\t", "\n">>,                    \* @v, a tab before the end
      <<"@", "w", "\n">>,                          \* @w
      <<" ", "D", "\f", "=", VT, "A", " ", "/", "/", "c", "\n">>,
                                                   \* " D\f=\vA //c"
      <<"J", "M", "P", "\n">>,                     \* JMP  (no computation)
      <<NBSP, "(", "7", ")", "\n">>,               \* (7) after U+00A0
      <<"@", "7", "\n">>,                          \* @7
      <<"/", "/", "c", "\n">> }                    \* //c

SeqsUpTo(S, n) == UNION {[1..k -> S] : k \in 0..n}

Sources == SeqsUpTo(LinePool, MaxLines)

\* sources of the Resolve scenario
SymLinePool ==
    { <<"(", "L", US, ")", "\n">>, <<"D", "\f", "=", VT, "A", "\n">>,
      <<"(", "K", ")">> }

SymSources == SeqsUpTo(SymLinePool, MaxSymLines)

\* names the Resolve scenario looks up: fresh names, labels, a seeded name
ResolveNames == { <<"v">>, <<"w">>, <<"u">>, <<"L">>, <<"S", "P">> }

\* the three parts of a compute instruction, as the tables name them
CompTokens == {comp_table[i][1] : i \in 1..Len(comp_table)}

DestTokens == {dest_table[i][1] : i \in 1..Len(dest_table)} \ {NoneKey}

JmpTokens == {jmp_table[i][1] : i \in 1..Len(jmp_table)} \ {NoneKey}

\* [dest=]comp[;jump]; an absent dest or jump is <<>>
CLine(d, c, j) ==
    (IF d = <<>> THEN <<>> ELSE d \o <<"=">>) \o c \o
    (IF j = <<>> THEN <<>> ELSE <<";">> \o j)

CLines == {CLine(d, c, j) : d \in DestTokens \cup {<<>>}, c \in CompTokens,
                            j \in JmpTokens \cup {<<>>}}

\* operands of numeric address instructions
AddrValues == {0, 1, 2, 5, 15, 16, 255, 16384, 24576, 32767, 32768, 65535,
               65536, 100000}

AddrLines ==
    {<<"@">> \o Str(n) : n \in AddrValues} \cup
    { <<"@", "f", "o", "o">>, <<"@", "R", "3">>, <<"@", "S", "P">>,
      <<"@", " ", "5", " ">>, <<"@", "+", "5">>, <<"@", "-", "5">>,
      <<"@", "1", "_", "0">>, <<"@", "1", "_", "_", "0">>,
      <<"@", "0", "0", "7">>, <<"@", "\n", "5">>, <<"@", "5", "\r", "\n">>,
      <<"@", "\f", "1", "6">>, <<"@", VT, "5">>, <<"@", NBSP, "5", NEL>>,
      <<"@", FS, "5">>, <<"@", "5", US>> }

Alphabet == {"A", "D", "M", "=", "+", "-", "1", ";", "(", ")", "@", "x"}

FreeLines == SeqsUpTo(Alphabet, MaxLineLen)

\* lines with text after the instruction, which re.match leaves unread
OtherLines ==
    { <<"M", "e", "m", "o", "r", "y", "=", "A", "d", "d", "r", "e", "s", "s">>,
      <<"D", "M", "=", "1">>, <<"A", "=", "M", "=", "D">>,
      <<"D", ";", "J", "X", "X">>, <<"D", "=", ";", "J", "M", "P">>,
      <<"(", "L", "O", "O", "P", ")">>, <<"D", "=", "A", "/", "/", "c">>,
      <<"D", "\f", "=", "A">>, <<"D", "=", "A", "\n">>, <<"\n">>,
      <<"D", VT, "=", "A">>, <<GS, "D", "=", "A", RS>>,
      <<"(", "L", ")", "\n">> }

EncoderLines == CLines \cup AddrLines \cup FreeLines \cup OtherLines

(***************************************************************************)
(* Scenario 1 (Spec): main assembles a source file.                        *)
(***************************************************************************)
Init ==
    /\ pc = "start"
    /\ asm \in Sources
    /\ lines = <<>>
    /\ table = EmptyTable
    /\ used = 0
    /\ line_loc = 0
    /\ parsed = <<>>
    /\ printed = <<>>
    /\ log = <<>>
    /\ hack = <<>>
    /\ calls = <<>>
    /\ inline = <<>>
    /\ symb = TRUE
    /\ outcome = NoOutcome

\* main, up to the loop: the file's lines stripped, the symbol table built
Construct ==
    /\ pc = "start"
    /\ LET symbolics == symboltable([i \in 1..Len(asm) |-> Strip(asm[i])])
       IN  /\ lines' = symbolics.lines
           /\ table' = symbolics.table
           /\ used' = symbolics.used
    /\ line_loc' = 0
    /\ parsed' = <<>>
    /\ pc' = "pass2"
    /\ UNCHANGED <<asm, printed, log, hack, calls, inline, symb, outcome>>

\* the loop with a break in the except clause: the first ParseError ends it
ParseNext_break ==
    /\ pc = "pass2"
    /\ line_loc < Len(lines)
    /\ LET loc == line_loc + 1
           line == lines[loc]
           o == parseline(line, loc, TRUE, table, used)
       IN  /\ table' = o.table
           /\ used' = o.used
           /\ CASE o.kind = "ok" ->
                     /\ line_loc' = loc
                     /\ parsed' = Append(parsed,
                                     [line |-> sanitizeline(line),
                                      line_loc |-> loc,
                                      type |-> o.type,
                                      binary |-> o.binary])
                     /\ UNCHANGED <<printed, log, pc>>
                [] o.kind = "ParseError" ->
                     /\ line_loc' = Len(lines)
                     /\ printed' = Append(printed,
                                      <<ClassType, o.err[2], o.err[1]>>)
                     /\ log' = <<Unknown, o.err[2], o.err[1]>>
                     /\ UNCHANGED <<parsed, pc>>
                [] OTHER ->
                     /\ line_loc' = loc
                     /\ pc' = "raised"
                     /\ UNCHANGED <<parsed, printed, log>>
    /\ UNCHANGED <<asm, lines, hack, calls, inline, symb, outcome>>

\* one turn of main's loop: the next line is encoded and kept, or its
\* ParseError is caught and printed; any other exception leaves main
ParseNext ==
    /\ pc = "pass2"
    /\ line_loc < Len(lines)
    /\ LET loc == line_loc + 1
           line == lines[loc]
           o == parseline(line, loc, TRUE, table, used)
       IN  /\ line_loc' = loc
           /\ table' = o.table
           /\ used' = o.used
           /\ CASE o.kind = "ok" ->
                     /\ parsed' = Append(parsed,
                                     [line |-> sanitizeline(line),
                                      line_loc |-> loc,
                                      type |-> o.type,
                                      binary |-> o.binary])
                     /\ UNCHANGED <<printed, log, pc>>
                [] o.kind = "ParseError" ->
                     /\ printed' = Append(printed,
                                      <<ClassType, o.err[2], o.err[1]>>)
                     /\ log' = <<Unknown, o.err[2], o.err[1]>>
                     /\ UNCHANGED <<parsed, pc>>
                [] OTHER ->
                     /\ pc' = "raised"
                     /\ UNCHANGED <<parsed, printed, log>>
    /\ UNCHANGED <<asm, lines, hack, calls, inline, symb, outcome>>

\* main, after the loop: one output line per parseline instance
WriteHack ==
    /\ pc = "pass2"
    /\ line_loc = Len(lines)
    /\ hack' = [k \in 1..Len(parsed) |-> parsed[k].binary]
    /\ pc' = "done"
    /\ UNCHANGED <<asm, lines, table, used, line_loc, parsed, printed, log,
                   calls, inline, symb, outcome>>

Next == Construct \/ ParseNext \/ WriteHack

Spec == Init /\ [][Next]_vars

(***************************************************************************)
(* Scenario 2 (SpecSym): a symbol table is built, then its public methods  *)
(* resolve and inittable are called any number of times.                   *)
(***************************************************************************)
InitSym ==
    /\ pc = "new"
    /\ asm \in SymSources
    /\ lines = <<>>
    /\ table = EmptyTable
    /\ used = 0
    /\ line_loc = 0
    /\ parsed = <<>>
    /\ printed = <<>>
    /\ log = <<>>
    /\ hack = <<>>
    /\ calls = <<>>
    /\ inline = <<>>
    /\ symb = TRUE
    /\ outcome = NoOutcome

\* symboltable(lines)
NewTable ==
    /\ pc = "new"
    /\ LET symbolics == symboltable(asm)
       IN  /\ lines' = symbolics.lines
           /\ table' = symbolics.table
           /\ used' = symbolics.used
    /\ pc' = "table"
    /\ UNCHANGED <<asm, line_loc, parsed, printed, log, hack, calls, inline,
                   symb, outcome>>

\* symbolics.resolve(name)
ResolveCall ==
    /\ pc = "table"
    /\ Len(calls) < MaxCalls
    /\ \E name \in ResolveNames :
         LET r == resolve(table, used, name)
         IN  /\ table' = r.table
             /\ used' = r.used
             /\ calls' = Append(calls, [op |-> "resolve", name |-> name,
                                        binary |-> r.binary,
                                        used |-> r.used])
    /\ UNCHANGED <<pc, asm, lines, line_loc, parsed, printed, log, hack,
                   inline, symb, outcome>>

\* symbolics.inittable(symbolics.lines) on the built table: the method sets
\* self.used and self.lines; the table it returns is dropped by the caller,
\* so self.table stays as it is
Rescan ==
    /\ pc = "table"
    /\ Len(calls) < MaxCalls
    /\ LET r == inittable(lines)
       IN  /\ used' = r.used
           /\ lines' = r.lines
           /\ calls' = Append(calls, [op |-> "inittable", name |-> <<>>,
                                      binary |-> <<>>, used |-> r.used])
    /\ UNCHANGED <<pc, asm, table, line_loc, parsed, printed, log, hack,
                   inline, symb, outcome>>

NextSym == NewTable \/ ResolveCall \/ Rescan

SpecSym == InitSym /\ [][NextSym]_vars

(***************************************************************************)
(* Scenario 3 (SpecLine): one parseline call on one line, with a freshly   *)
(* built symbol table of an empty source or with none.                     *)
(***************************************************************************)
InitLine ==
    /\ pc = "line"
    /\ inline \in EncoderLines
    /\ symb \in BOOLEAN
    /\ asm = <<>>
    /\ lines = <<>>
    /\ table = IF symb THEN symboltable(<<>>).table ELSE EmptyTable
    /\ used = IF symb THEN symboltable(<<>>).used ELSE 0
    /\ line_loc = 1
    /\ parsed = <<>>
    /\ printed = <<>>
    /\ log = <<>>
    /\ hack = <<>>
    /\ calls = <<>>
    /\ outcome = NoOutcome

\* parseline(inline, line_loc, symbolics)
Encode ==
    /\ pc = "line"
    /\ LET o == parseline(inline, line_loc, symb, table, used)
       IN  /\ outcome' = o
           /\ table' = o.table
           /\ used' = o.used
           /\ log' = IF o.kind = "ParseError"
                     THEN <<Unknown, o.err[2], o.err[1]>> ELSE log
    /\ pc' = "encoded"
    /\ UNCHANGED <<asm, lines, line_loc, parsed, printed, hack, calls, inline,
                   symb>>

NextLine == Encode

SpecLine == InitLine /\ [][NextLine]_vars

(***************************************************************************)
(* Vocabulary of the properties.                                           *)
(***************************************************************************)
\* a word of exactly 16 characters, each "0" or "1"
IsWord16(b) == Len(b) = 16 /\ \A i \in 1..Len(b) : b[i] \in {"0", "1"}

\* the number a text of binary digits denotes, most significant bit first
RECURSIVE BinVal(_)
BinVal(b) == IF Len(b) = 0 THEN 0
             ELSE 2 * BinVal(SubSeq(b, 1, Len(b) - 1))
                  + (IF b[Len(b)] = "1" THEN 1 ELSE 0)

\* the sanitized, non-empty lines of the source a symbol table was built from
SourceLines(raw) ==
    SelectSeq([i \in 1..Len(raw) |-> sanitizeline(raw[i])], LAMBDA l : l # <<>>)

\* the names declared as labels in the source
DeclaredLabels(raw) ==
    LET S == SourceLines(raw)
    IN  {SubSeq(S[p], 2, Len(S[p]) - 1) :
            p \in {q \in 1..Len(S) : S[q][1] = "(" /\ S[q][Len(S[q])] = ")"}}

\* the names the 23 pre-set entries give
SeededNames ==
    {<<"R">> \o Str(i) : i \in 0..15} \cup
    { <<"S", "P">>, <<"L", "C", "L">>, <<"A", "R", "G">>,
      <<"T", "H", "I", "S">>, <<"T", "H", "A", "T">>,
      <<"S", "C", "R", "E", "E", "N">>, <<"K", "B", "D">> }

\* the names in the table when construction ends
PresetNames(raw) == SeededNames \cup DeclaredLabels(raw)

(***************************************************************************)
(* C1 (SpecSym).                                                           *)
(***************************************************************************)
\* calls 1..i are resolve calls: the table is as construction and resolve
\* alone made it
OnlyResolves(i) == \A j \in 1..i : calls[j].op = "resolve"

\* call i is the first resolve of a name that construction did not enter
IsFirstNew(i) ==
    /\ calls[i].name \notin PresetNames(asm)
    /\ \A j \in 1..(i - 1) : calls[j].name # calls[i].name

\* how many distinct new names calls 1..i have introduced
NewCount(i) == Cardinality({j \in 1..i : IsFirstNew(j)})

\* the counter before call i
UsedBefore(i) == IF i = 1 THEN 15 ELSE calls[i - 1].used

\* C1: over any sequence of resolve calls on a freshly built symbol table
\* (no other method called on it in between),
\* the k-th distinct name that is not in the table (neither seeded nor a
\* declared label) is given address 15+k as a 16-character binary word and
\* the counter becomes 15+k; every later resolve of a name already given an
\* address returns the word it was first given and leaves the counter
\* where it was.
C1_VariableAddresses ==
    \A i \in {j \in 1..Len(calls) : OnlyResolves(j)} :
        /\ IsFirstNew(i) =>
              /\ IsWord16(calls[i].binary)
              /\ BinVal(calls[i].binary) = 15 + NewCount(i)
              /\ calls[i].used = 15 + NewCount(i)
        /\ \A j \in 1..(i - 1) :
              calls[j].name = calls[i].name =>
                  /\ calls[i].binary = calls[j].binary
                  /\ calls[i].used = UsedBefore(i)

\* C1 witness: two distinct new names were given 16 and 17, and the first
\* was resolved again afterwards
C1_Witness ==
    \E i, j, k \in 1..Len(calls) :
        /\ i < j /\ j < k
        /\ OnlyResolves(k)
        /\ IsFirstNew(i) /\ IsFirstNew(j)
        /\ BinVal(calls[i].binary) = 16
        /\ BinVal(calls[j].binary) = 17
        /\ calls[k].name = calls[i].name
        /\ calls[k].binary = calls[i].binary

(***************************************************************************)
(* C3 (SpecSym).                                                           *)
(***************************************************************************)
\* C3 as stated: in every state of the symbol table that construction and
\* resolve calls reach, no two distinct names map to the same address. The seeding alone refutes it: R0 and SP are
\* both 0.
C3_NoSharedAddress ==
    (pc = "table" /\ OnlyResolves(Len(calls))) =>
        \A a, b \in DOMAIN table : a # b => table[a] # table[b]

\* C3 as amended: in every such state every name maps to exactly one
\* address once resolved
\* (the table still holds, for every name resolve was called with, the
\* address that call returned), and no two distinct names that resolve
\* entered as variables (names that are neither seeded nor declared labels)
\* share an address.
C3_VariablesDistinct ==
    (pc = "table" /\ OnlyResolves(Len(calls))) =>
        /\ \A i \in 1..Len(calls) :
               /\ calls[i].name \in DOMAIN table
               /\ table[calls[i].name] = calls[i].binary
        /\ \A a, b \in (DOMAIN table) \ PresetNames(asm) :
               a # b => table[a] # table[b]

\* C3 witness: the table holds a label and two variables
C3_Witness ==
    /\ pc = "table"
    /\ OnlyResolves(Len(calls))
    /\ DeclaredLabels(asm) # {}
    /\ Cardinality((DOMAIN table) \ PresetNames(asm)) >= 2

(***************************************************************************)
(* Reading a line as [dest=]comp[;jump] by splitting it at the first "="   *)
(* and the first ";" after it, independently of the pattern of code_parse. *)
(***************************************************************************)
FirstPos(s, ch) ==
    LET hits == {i \in 1..Len(s) : s[i] = ch}
    IN  IF hits = {} THEN 0 ELSE CHOOSE i \in hits : \A j \in hits : i <= j

\* the text before the first "=", or <<>> when the line has no "="
DestPart(line) ==
    IF FirstPos(line, "=") = 0 THEN <<>>
    ELSE SubSeq(line, 1, FirstPos(line, "=") - 1)

AfterDest(line) == Drop(line, FirstPos(line, "="))

\* the text between the dest part and the first ";" after it
CompPart(line) ==
    LET r == AfterDest(line)
    IN  IF FirstPos(r, ";") = 0 THEN r ELSE SubSeq(r, 1, FirstPos(r, ";") - 1)

\* the text after that ";", or <<>> when there is none
JumpPart(line) ==
    LET r == AfterDest(line)
    IN  IF FirstPos(r, ";") = 0 THEN <<>> ELSE Drop(r, FirstPos(r, ";"))

\* the line is exactly [dest=]comp[;jump] with its parts from the tables
IsCInstr(line) ==
    /\ FirstPos(line, "=") # 0 => DestPart(line) \in DestTokens
    /\ CompPart(line) \in CompTokens
    /\ FirstPos(AfterDest(line), ";") # 0 => JumpPart(line) \in JmpTokens

\* the code the tables give a part; an absent dest or jump is "None"
CodeOf(tab, part) == Lookup(tab, IF part = <<>> THEN NoneKey ELSE part)

\* the longest text of a non-empty set of prefixes of one text
Longest(S) == CHOOSE t \in S : \A u \in S : Len(u) <= Len(t)

\* the destination tokens that start the line and are followed by "="
DestFits(line) == {t \in DestTokens : StartsWith(line, t \o <<"=">>)}

\* the text after the destination the line starts with, if it has one
AfterLongestDest(line) ==
    IF DestFits(line) = {} THEN line
    ELSE Drop(line, Len(Longest(DestFits(line))) + 1)

\* the computation tokens that start the text after the destination
CompFits(line) == {c \in CompTokens : StartsWith(AfterLongestDest(line), c)}

\* the symbol table a single parseline call starts with
LineTable == IF symb THEN SeedTable ELSE EmptyTable

LineUsed == IF symb THEN 15 ELSE 0

(***************************************************************************)
(* C5 (SpecLine).                                                          *)
(***************************************************************************)
\* C5: every line [dest=]comp[;jump] with dest one of M, D, A, MD, AM, AD,
\* AMD or absent, comp one of the 28 computations and jump one of the 7
\* jumps or absent is encoded as a compute instruction whose word is the
\* 10-bit computation code, then the 3-bit destination code, then the
\* 3-bit jump code of the tables, an absent part giving 000; D=D+1 gives
\* 1110011111010000.
C5_ComputeWord ==
    (pc = "encoded" /\ IsCInstr(inline)) =>
        /\ outcome.kind = "ok"
        /\ outcome.type = "c_type"
        /\ IsWord16(outcome.binary)
        /\ SubSeq(outcome.binary, 1, 10) = CodeOf(comp_table, CompPart(inline))
        /\ SubSeq(outcome.binary, 11, 13) =
               (IF DestPart(inline) = <<>> THEN <<"0", "0", "0">>
                ELSE CodeOf(dest_table, DestPart(inline)))
        /\ SubSeq(outcome.binary, 14, 16) =
               (IF JumpPart(inline) = <<>> THEN <<"0", "0", "0">>
                ELSE CodeOf(jmp_table, JumpPart(inline)))
        /\ inline = <<"D", "=", "D", "+", "1">> =>
               outcome.binary = <<"1", "1", "1", "0", "0", "1", "1", "1", "1",
                                  "1", "0", "1", "0", "0", "0", "0">>

\* C5 witness: a line with all three parts was encoded
C5_Witness ==
    /\ pc = "encoded"
    /\ inline = <<"A", "M", "D", "=", "D", "+", "1", ";", "J", "G", "T">>
    /\ outcome.binary = <<"1", "1", "1", "0", "0", "1", "1", "1", "1", "1",
                          "1", "1", "1", "0", "0", "1">>

(***************************************************************************)
(* C6 (SpecLine).                                                          *)
(***************************************************************************)
\* the line is @N with N a non-negative integer
IsNumericAddress(line) ==
    /\ Len(line) >= 1
    /\ line[1] = "@"
    /\ IsInt(Drop(line, 1))
    /\ IntVal(Drop(line, 1)) >= 0

\* what C6 promises of the call on inline
NumericAddressEncoded ==
    /\ outcome.kind = "ok"
    /\ outcome.type = "a_type"
    /\ IsWord16(outcome.binary)
    /\ BinVal(outcome.binary) = IntVal(Drop(inline, 1))
    /\ \A n \in AddrValues :
           inline = <<"@">> \o Str(n) => BinVal(outcome.binary) = n
    /\ table = LineTable
    /\ used = LineUsed

\* C6 as stated: every @N with N a non-negative integer is encoded as N in
\* binary in exactly 16 characters, each 0 or 1, and the symbol table is
\* left unchanged. @65536 refutes it: format pads to at least 16 characters
\* and the word has 17.
C6_NumericAddress ==
    (pc = "encoded" /\ IsNumericAddress(inline)) => NumericAddressEncoded

\* C6 as amended: the same for every @N with 0 <= N <= 65535.
C6_NumericAddressInRange ==
    (pc = "encoded" /\ IsNumericAddress(inline)
                    /\ IntVal(Drop(inline, 1)) <= 65535)
        => NumericAddressEncoded

\* C6 witness: @24576 was encoded with a symbol table at hand
C6_Witness ==
    /\ pc = "encoded"
    /\ symb
    /\ inline = <<"@", "2", "4", "5", "7", "6">>
    /\ outcome.binary = <<"0", "1", "1", "0", "0", "0", "0", "0", "0", "0",
                          "0", "0", "0", "0", "0", "0">>

(***************************************************************************)
(* C7 (SpecLine).                                                          *)
(***************************************************************************)
\* C7: an address instruction whose operand is not an integer, encoded with
\* no symbol table, ends in a ParseError that carries the offending text
\* and the line position, and in no other kind of failure.
C7_NoTableIsParseError ==
    (/\ pc = "encoded"
     /\ ~symb
     /\ Len(inline) >= 1
     /\ inline[1] = "@"
     /\ ~IsInt(Drop(inline, 1)))
        => /\ outcome.kind = "ParseError"
           /\ outcome.err \in {<<inline, line_loc>>,
                               <<Drop(inline, 1), line_loc>>}

(***************************************************************************)
(* C8 (SpecLine).                                                          *)
(***************************************************************************)
\* C8: a line that is empty or has the shape (...) and yields no
\* computation code gives no instruction (no type tag, empty binary) and
\* raises no error of any kind.
C8_EmptyOrLabelIsSilent ==
    (/\ pc = "encoded"
     /\ \/ inline = <<>>
        \/ Len(inline) >= 1 /\ inline[1] = "(" /\ inline[Len(inline)] = ")"
     /\ CompFits(inline) = {})
        => /\ outcome.kind = "ok"
           /\ outcome.type = "None"
           /\ outcome.binary = <<>>

(***************************************************************************)
(* C9 (SpecLine).                                                          *)
(***************************************************************************)
\* C9: on every line that is not an address instruction the grammar binds
\* the longest alternative: the line is a compute instruction exactly when
\* some computation token starts the text after the optional destination,
\* its computation code is that of the longest such token and its
\* destination code that of the longest destination token followed by "="
\* (000 when there is none), so no shorter token shadows a longer one.
C9_LongestMatch ==
    (pc = "encoded" /\ Len(inline) >= 1 /\ inline[1] # "@") =>
        /\ (outcome.kind = "ok" /\ outcome.type = "c_type")
               <=> CompFits(inline) # {}
        /\ CompFits(inline) # {} =>
              /\ SubSeq(outcome.binary, 1, 10) =
                     Lookup(comp_table, Longest(CompFits(inline)))
              /\ SubSeq(outcome.binary, 11, 13) =
                     (IF DestFits(inline) = {} THEN <<"0", "0", "0">>
                      ELSE Lookup(dest_table, Longest(DestFits(inline))))

\* C9 witness: AMD=D+1 was encoded, where AM, A, D and D+1 all compete
C9_Witness ==
    /\ pc = "encoded"
    /\ inline = <<"A", "M", "D", "=", "D", "+", "1">>
    /\ Cardinality(CompFits(inline)) = 2
    /\ SubSeq(outcome.binary, 1, 13) =
           <<"1", "1", "1", "0", "0", "1", "1", "1", "1", "1", "1", "1", "1">>

(***************************************************************************)
(* Vocabulary of the properties of main.                                   *)
(***************************************************************************)
\* line p of the sanitized source S is a label declaration
IsDecl(S, p) == S[p][1] = "(" /\ S[p][Len(S[p])] = ")"

LabelName(S, p) == SubSeq(S[p], 2, Len(S[p]) - 1)

\* the 0-based index, among the real (non-label) instructions, of the next
\* real instruction after line p
InstrIndexAfter(S, p) == Cardinality({q \in 1..(p - 1) : ~IsDecl(S, q)})

\* declaration p is the last one of its name
IsLastDecl(S, p) ==
    /\ IsDecl(S, p)
    /\ \A q \in (p + 1)..Len(S) :
           IsDecl(S, q) => LabelName(S, q) # LabelName(S, p)

\* the real instructions of the source, in order
RealLines(S) ==
    SelectSeq(S, LAMBDA l : ~(l[1] = "(" /\ l[Len(l)] = ")"))

\* a real instruction line that the encoder accepts: an address instruction,
\* or a line on which some computation token fits
Parses(l) == l[1] = "@" \/ CompFits(l) # {}

\* the words of a sequence of accepted lines encoded one after the other,
\* starting from a symbol table and its counter
RECURSIVE EncodeAll(_, _, _)
EncodeAll(ls, t, u) ==
    IF ls = <<>> THEN <<>>
    ELSE LET o == parseline(Head(ls), 1, TRUE, t, u)
         IN  <<o.binary>> \o EncodeAll(Tail(ls), o.table, o.used)

(***************************************************************************)
(* C2 (Spec).                                                              *)
(***************************************************************************)
\* every reference @NAME encoded so far carries the index after line p
RefsEncodeIndexAfter(S, p) ==
    \A k \in 1..Len(parsed) :
        parsed[k].line = <<"@">> \o LabelName(S, p) =>
            /\ IsWord16(parsed[k].binary)
            /\ BinVal(parsed[k].binary) = InstrIndexAfter(S, p)

\* C2 as stated, NAME being a symbolic name (an operand that is an integer
\* is a number, not a name): for every label declaration (NAME) and every
\* @NAME, before or after it, the reference encodes to the index of the next
\* real instruction after the declaration, and every label is in the table
\* from the start of pass 2. A label declared twice refutes it: in
\* (L) @L (L) the first declaration is followed by instruction 0 and the
\* reference encodes 1.
C2_EveryDeclaration ==
    pc \in {"pass2", "done"} =>
        \A p \in 1..Len(SourceLines(asm)) :
            (/\ IsDecl(SourceLines(asm), p)
             /\ ~IsInt(LabelName(SourceLines(asm), p))) =>
                /\ LabelName(SourceLines(asm), p) \in DOMAIN table
                /\ RefsEncodeIndexAfter(SourceLines(asm), p)

\* C2 as amended: for every declared label name (a symbolic name) and
\* every @NAME, before or after the declaration, the reference encodes to
\* the 16-bit binary of the 0-based index of the next real instruction after
\* the LAST declaration of NAME; from the start of pass 2 on the table holds
\* that address for NAME, so a forward reference is never given a variable
\* address.
C2_LastDeclaration ==
    pc \in {"pass2", "done"} =>
        \A p \in 1..Len(SourceLines(asm)) :
            (/\ IsLastDecl(SourceLines(asm), p)
             /\ ~IsInt(LabelName(SourceLines(asm), p))) =>
                /\ LabelName(SourceLines(asm), p) \in DOMAIN table
                /\ BinVal(table[LabelName(SourceLines(asm), p)]) =
                       InstrIndexAfter(SourceLines(asm), p)
                /\ RefsEncodeIndexAfter(SourceLines(asm), p)

\* C2 witness: a reference in the first line to a label declared further
\* down, after at least one more instruction, was encoded
C2_Witness ==
    /\ pc = "done"
    /\ Len(parsed) >= 1
    /\ parsed[1].line = <<"@", "L">>
    /\ \E p \in 3..Len(SourceLines(asm)) :
           /\ IsLastDecl(SourceLines(asm), p)
           /\ LabelName(SourceLines(asm), p) = <<"L">>
           /\ InstrIndexAfter(SourceLines(asm), p) >= 2
           /\ BinVal(parsed[1].binary) = InstrIndexAfter(SourceLines(asm), p)

(***************************************************************************)
(* C4 (Spec).                                                              *)
(***************************************************************************)
\* C4: main never stops on a line, and when it is done the output is
\* exactly the encodings of the non-label, non-empty lines that parse, in
\* source order, each encoded as if the failing lines were not there; every
\* line that fails to parse has been reported once, in order, with its text
\* and its 1-based position among the real instructions, and has no word
\* in the output.
C4_OutputOfParsingLines ==
    /\ pc # "raised"
    /\ pc = "done" =>
         LET canon == RealLines(SourceLines(asm))
             good == SelectSeq(canon, Parses)
             built == symboltable(asm)
         IN  /\ hack = EncodeAll(good, built.table, built.used)
             /\ Len(printed) = Len(canon) - Len(good)
             /\ \A k \in 1..Len(printed) :
                    /\ printed[k][2] \in 1..Len(canon)
                    /\ printed[k][3] = canon[printed[k][2]]
                    /\ ~Parses(canon[printed[k][2]])
                    /\ k > 1 => printed[k - 1][2] < printed[k][2]

\* C4 witness: a line failed to parse, was reported, and a later line that
\* uses the symbol table was still encoded
C4_Witness ==
    /\ pc = "done"
    /\ Len(printed) >= 1
    /\ \E k \in 1..Len(parsed) :
           /\ parsed[k].line_loc > printed[1][2]
           /\ parsed[k].line = <<"@", "v">>
           /\ hack[k] = format016b(16)

(***************************************************************************)
(* C10 (Spec).                                                             *)
(***************************************************************************)
\* C10: when main is done, output word k is the encoding of real
\* instruction k, and every label's address is the 0-based position in the
\* output of the encoding of the first real instruction after the label's
\* (last) declaration - also when some line failed to parse and was left
\* out.
C10_OutputPositionIsAddress ==
    pc = "done" =>
        /\ \A k \in 1..Len(hack) :
               parsed[k].line_loc = k /\ hack[k] = parsed[k].binary
        /\ \A p \in 1..Len(SourceLines(asm)) :
               (/\ IsLastDecl(SourceLines(asm), p)
                /\ InstrIndexAfter(SourceLines(asm), p) < Len(lines)) =>
                   \E k \in 1..Len(hack) :
                       /\ parsed[k].line_loc =
                              InstrIndexAfter(SourceLines(asm), p) + 1
                       /\ BinVal(table[LabelName(SourceLines(asm), p)]) = k - 1

=============================================================================
